---- MODULE Spec2Model ----
(***************************************************************************)
(* The counter program of src/solana/src/lib.rs: process_instruction and   *)
(* its four handlers, run by a ledger that keeps accounts (balance, data,  *)
(* owner), commits an instruction's writes when it returns Ok and passes   *)
(* the host's account checks, and discards them otherwise.                 *)
(*                                                                         *)
(* TLC's integers are 32 bits wide, so u64 is scaled: a u64 holds          *)
(* 0..U64Max. Everything else keeps the program's own numbers: the data    *)
(* of a counter is U64Bytes bytes, little-endian, radix 256.               *)
(***************************************************************************)
EXTENDS Integers, Sequences, FiniteSets, TLC

VARIABLES
    accounts,   \* the ledger: key -> [lamports, data, owner]
    last,       \* the last instruction: its payload, what it was, how it ended,
                \* the accounts before it and, when committed, its first two
                \* account keys and whether the first was closed
    closed,     \* the keys a Close was committed on with no Initialize committed since
    utils,      \* the last call of a function of utils.rs or of a client: its
                \* inputs and what it returned
    tally       \* per counter, the run of Increments committed on it since it was
                \* last created, reset or closed: the value the run began with,
                \* how many there were, which callers issued them

vars == <<accounts, last, closed, utils, tally>>

\* ------------------------------------------------------------------ bounds
\* u64::MAX, scaled.
U64Max == 3
\* rent.minimum_balance(account_space), a value of the host's rent sysvar.
RentMinimum == 1

\* ------------------------------------------------------- program constants
\* std::mem::size_of::<CounterAccount>()
AccountSpace == 8
\* the Borsh width of count: u64
U64Bytes == 8
\* the values of one u8
ByteRadix == 256
\* the first discriminant that is no variant of CounterInstruction
VariantCount == 4

None == -1

\* ------------------------------------------------------------- identities
ProgramId == "program"
SystemProgramId == "system"
\* u1 is the user whose counter the ledger holds at pda1; u2 is another user.
Users == {"u1", "u2"}
Pdas == {"pda1"}
Keys == Users \cup Pdas \cup {SystemProgramId}

\* Pubkey::find_program_address(&[b"counter", user.key], program_id): an
\* injective function of the user. Only u1's address is a key of the ledger
\* modelled here; the others are addresses no supplied account has.
find_program_address(user, program_id) ==
    IF program_id # ProgramId THEN "off"
    ELSE CASE user = "u1" -> "pda1"
           [] user = "u2" -> "pda2"
           [] OTHER -> "off"

\* ------------------------------------------------------------------ codec
RECURSIVE from_le_bytes(_)
\* u64::from_le_bytes: bytes[1] is the least significant.
from_le_bytes(bytes) ==
    IF bytes = <<>> THEN 0
    ELSE Head(bytes) + ByteRadix * from_le_bytes(Tail(bytes))

RECURSIVE to_le_bytes(_, _)
\* u64::to_le_bytes, n bytes wide.
to_le_bytes(value, n) ==
    IF n = 0 THEN <<>>
    ELSE <<value % ByteRadix>> \o to_le_bytes(value \div ByteRadix, n - 1)

\* CounterAccount::try_from_slice: the slice must hold exactly one u64.
CounterAccount_try_from_slice(data) ==
    IF Len(data) # U64Bytes THEN None ELSE from_le_bytes(data)

\* CounterAccount::serialize into the account's data (the first U64Bytes).
CounterAccount_serialize(count, data) ==
    [i \in 1..Len(data) |->
        IF i <= U64Bytes THEN to_le_bytes(count, U64Bytes)[i] ELSE data[i]]

\* u64::checked_add
checked_add(a, b) == IF a + b > U64Max THEN None ELSE a + b

\* A bug CounterInstruction::try_from_slice could have: the variant is read
\* off the first byte and the bytes after it are not looked at.
CounterInstruction_deserialize_prefix(instruction_data) ==
    IF Len(instruction_data) >= 1 /\ instruction_data[1] < VariantCount
    THEN CASE instruction_data[1] = 0 -> "Initialize"
           [] instruction_data[1] = 1 -> "Increment"
           [] instruction_data[1] = 2 -> "Reset"
           [] instruction_data[1] = 3 -> "Close"
    ELSE "Err"

\* CounterInstruction::try_from_slice: one byte, the variant's index.
CounterInstruction_try_from_slice(instruction_data) ==
    IF Len(instruction_data) = 1 /\ instruction_data[1] < VariantCount
    THEN CASE instruction_data[1] = 0 -> "Initialize"
           [] instruction_data[1] = 1 -> "Increment"
           [] instruction_data[1] = 2 -> "Reset"
           [] instruction_data[1] = 3 -> "Close"
    ELSE "Err"

\* slice.fill(0)
fill_zero(data) == [i \in 1..Len(data) |-> 0]

\* ------------------------------------------------------------ the handlers
\* What a handler returns: its result, the accounts as it leaves them, and
\* the accounts as its cross-program call left them (the accounts it was
\* given when it made none).
Ret(res, accts, cpi) == [res |-> res, accts |-> accts, cpi |-> cpi]

\* system_instruction::create_account run through invoke_signed: the
\* caller's flags must cover the callee's (payer and new account writable,
\* payer a signer, the new account signed for by the seeds), the system
\* program must be among the accounts, the new account must be unused, the
\* payer must hold no data and enough balance.
create_account(accts, from, to, system_program, lamports, space, owner, signed_key) ==
    IF ~(from.is_signer /\ from.is_writable /\ to.is_writable
         /\ (to.is_signer \/ to.key = signed_key))
    THEN Ret("PrivilegeEscalation", accts, accts)
    ELSE IF system_program.key # SystemProgramId
    THEN Ret("MissingAccount", accts, accts)
    ELSE IF accts[to.key].lamports > 0
    THEN Ret("AccountAlreadyInUse", accts, accts)
    ELSE IF accts[to.key].data # <<>> \/ accts[to.key].owner # SystemProgramId
    THEN Ret("AccountAlreadyInUse", accts, accts)
    ELSE IF accts[from.key].data # <<>> \/ accts[from.key].owner # SystemProgramId
    THEN Ret("InvalidArgument", accts, accts)
    ELSE IF accts[from.key].lamports < lamports
    THEN Ret("InsufficientFunds", accts, accts)
    ELSE LET created == [accts EXCEPT
                 ![to.key] = [lamports |-> lamports,
                              data |-> [i \in 1..space |-> 0],
                              owner |-> owner],
                 ![from.key].lamports = accts[from.key].lamports - lamports]
         IN Ret("Ok", created, created)

\* A bug create_new_counter could have: the account is created with no
\* space.
create_new_counter_unsized(program_id, accts, counter_account, user, system_program, expected) ==
    LET invoked == create_account(accts, user, counter_account, system_program,
                       RentMinimum, 0, program_id, expected)
        data == invoked.accts[counter_account.key].data
    IN
    IF invoked.res # "Ok" THEN invoked
    ELSE IF CounterAccount_try_from_slice(data) = None
    THEN Ret("BorshIoError", invoked.accts, invoked.accts)
    ELSE Ret("Ok",
             [invoked.accts EXCEPT ![counter_account.key].data =
                 CounterAccount_serialize(0, data)],
             invoked.accts)

\* process_initialize once its checks have passed: the account is created
\* by the system program and its data initialised.
create_new_counter(program_id, accts, counter_account, user, system_program, expected) ==
    LET account_space == AccountSpace
        required_lamports == RentMinimum
        invoked == create_account(accts, user, counter_account, system_program,
                       required_lamports, account_space, program_id, expected)
        data == invoked.accts[counter_account.key].data
    IN
    IF invoked.res # "Ok" THEN invoked
    ELSE IF CounterAccount_try_from_slice(data) = None
    THEN Ret("BorshIoError", invoked.accts, invoked.accts)
    ELSE Ret("Ok",
             [invoked.accts EXCEPT ![counter_account.key].data =
                 CounterAccount_serialize(0, data)],
             invoked.accts)

\* A bug process_initialize could have: no early return for an account that
\* exists.
process_initialize_unguarded(program_id, accts, metas) ==
    IF Len(metas) < 3 THEN Ret("NotEnoughAccountKeys", accts, accts)
    ELSE LET expected_counter_address == find_program_address(metas[2].key, program_id)
         IN
         IF ~metas[2].is_signer THEN Ret("MissingRequiredSignature", accts, accts)
         ELSE IF metas[1].key # expected_counter_address
         THEN Ret("InvalidAccountData", accts, accts)
         ELSE create_new_counter(program_id, accts, metas[1], metas[2], metas[3],
                                 expected_counter_address)

\* A bug process_initialize could have: the address is compared before the
\* signer is checked.
process_initialize_address_first(program_id, accts, metas) ==
    IF Len(metas) < 3 THEN Ret("NotEnoughAccountKeys", accts, accts)
    ELSE LET expected_counter_address == find_program_address(metas[2].key, program_id)
         IN
         IF metas[1].key # expected_counter_address
         THEN Ret("InvalidAccountData", accts, accts)
         ELSE IF ~metas[2].is_signer THEN Ret("MissingRequiredSignature", accts, accts)
         ELSE IF accts[metas[1].key].lamports > 0
         THEN Ret("Ok", accts, accts)
         ELSE create_new_counter(program_id, accts, metas[1], metas[2], metas[3],
                                 expected_counter_address)

process_initialize(program_id, accts, metas) ==
    IF Len(metas) < 3 THEN Ret("NotEnoughAccountKeys", accts, accts)
    ELSE LET counter_account == metas[1]
             user == metas[2]
             system_program == metas[3]
             expected_counter_address == find_program_address(user.key, program_id)
         IN
         IF ~user.is_signer THEN Ret("MissingRequiredSignature", accts, accts)
         ELSE IF counter_account.key # expected_counter_address
         THEN Ret("InvalidAccountData", accts, accts)
         ELSE IF accts[counter_account.key].lamports > 0
         THEN Ret("Ok", accts, accts)
         ELSE create_new_counter(program_id, accts, counter_account, user,
                                 system_program, expected_counter_address)

\* A bug process_increment could have: the count wraps (wrapping_add).
process_increment_wrapping(accts, metas) ==
    IF Len(metas) < 1 THEN Ret("NotEnoughAccountKeys", accts, accts)
    ELSE LET data == accts[metas[1].key].data
             count == CounterAccount_try_from_slice(data)
         IN
         IF ~metas[1].is_writable THEN Ret("InvalidAccountData", accts, accts)
         ELSE IF count = None THEN Ret("BorshIoError", accts, accts)
         ELSE Ret("Ok",
                  [accts EXCEPT ![metas[1].key].data =
                      CounterAccount_serialize((count + 1) % (U64Max + 1), data)],
                  accts)

\* A bug process_increment could have: the count is written back as read.
process_increment_unsaved(accts, metas) ==
    IF Len(metas) < 1 THEN Ret("NotEnoughAccountKeys", accts, accts)
    ELSE LET data == accts[metas[1].key].data
             count == CounterAccount_try_from_slice(data)
         IN
         IF ~metas[1].is_writable THEN Ret("InvalidAccountData", accts, accts)
         ELSE IF count = None THEN Ret("BorshIoError", accts, accts)
         ELSE IF checked_add(count, 1) = None THEN Ret("Panic", accts, accts)
         ELSE Ret("Ok",
                  [accts EXCEPT ![metas[1].key].data =
                      CounterAccount_serialize(count, data)],
                  accts)

\* A bug process_increment could have: the count is raised from a fresh
\* CounterAccount instead of the one read, so earlier updates are lost.
process_increment_lost_update(accts, metas) ==
    IF Len(metas) < 1 THEN Ret("NotEnoughAccountKeys", accts, accts)
    ELSE LET data == accts[metas[1].key].data
             count == CounterAccount_try_from_slice(data)
         IN
         IF ~metas[1].is_writable THEN Ret("InvalidAccountData", accts, accts)
         ELSE IF count = None THEN Ret("BorshIoError", accts, accts)
         ELSE IF checked_add(count, 1) = None THEN Ret("Panic", accts, accts)
         ELSE Ret("Ok",
                  [accts EXCEPT ![metas[1].key].data =
                      CounterAccount_serialize(checked_add(0, 1), data)],
                  accts)

process_increment(accts, metas) ==
    IF Len(metas) < 1 THEN Ret("NotEnoughAccountKeys", accts, accts)
    ELSE LET counter_account == metas[1]
             data == accts[counter_account.key].data
             count == CounterAccount_try_from_slice(data)
         IN
         IF ~counter_account.is_writable THEN Ret("InvalidAccountData", accts, accts)
         ELSE IF count = None THEN Ret("BorshIoError", accts, accts)
         ELSE IF checked_add(count, 1) = None THEN Ret("Panic", accts, accts)
         ELSE Ret("Ok",
                  [accts EXCEPT ![counter_account.key].data =
                      CounterAccount_serialize(checked_add(count, 1), data)],
                  accts)

\* A bug process_reset could have: the user account is fetched only after
\* the writable check.
process_reset_late_fetch(accts, metas) ==
    IF Len(metas) < 1 THEN Ret("NotEnoughAccountKeys", accts, accts)
    ELSE IF ~metas[1].is_writable THEN Ret("InvalidAccountData", accts, accts)
    ELSE IF Len(metas) < 2 THEN Ret("NotEnoughAccountKeys", accts, accts)
    ELSE IF ~metas[2].is_signer THEN Ret("MissingRequiredSignature", accts, accts)
    ELSE IF CounterAccount_try_from_slice(accts[metas[1].key].data) = None
    THEN Ret("BorshIoError", accts, accts)
    ELSE Ret("Ok",
             [accts EXCEPT ![metas[1].key].data =
                 CounterAccount_serialize(0, accts[metas[1].key].data)],
             accts)

\* A bug process_reset could have: the signer is checked before the
\* writable flag.
process_reset_signer_first(accts, metas) ==
    IF Len(metas) < 2 THEN Ret("NotEnoughAccountKeys", accts, accts)
    ELSE LET data == accts[metas[1].key].data
         IN
         IF ~metas[2].is_signer THEN Ret("MissingRequiredSignature", accts, accts)
         ELSE IF ~metas[1].is_writable THEN Ret("InvalidAccountData", accts, accts)
         ELSE IF CounterAccount_try_from_slice(data) = None
         THEN Ret("BorshIoError", accts, accts)
         ELSE Ret("Ok",
                  [accts EXCEPT ![metas[1].key].data =
                      CounterAccount_serialize(0, data)],
                  accts)

\* A bug process_reset could have: the count read is written back, the
\* assignment of 0 left out.
process_reset_unassigned(accts, metas) ==
    IF Len(metas) < 2 THEN Ret("NotEnoughAccountKeys", accts, accts)
    ELSE LET data == accts[metas[1].key].data
             count == CounterAccount_try_from_slice(data)
         IN
         IF ~metas[1].is_writable THEN Ret("InvalidAccountData", accts, accts)
         ELSE IF ~metas[2].is_signer THEN Ret("MissingRequiredSignature", accts, accts)
         ELSE IF count = None THEN Ret("BorshIoError", accts, accts)
         ELSE Ret("Ok",
                  [accts EXCEPT ![metas[1].key].data =
                      CounterAccount_serialize(count, data)],
                  accts)

process_reset(accts, metas) ==
    IF Len(metas) < 2 THEN Ret("NotEnoughAccountKeys", accts, accts)
    ELSE LET counter_account == metas[1]
             user == metas[2]
             data == accts[counter_account.key].data
         IN
         IF ~counter_account.is_writable THEN Ret("InvalidAccountData", accts, accts)
         ELSE IF ~user.is_signer THEN Ret("MissingRequiredSignature", accts, accts)
         ELSE IF CounterAccount_try_from_slice(data) = None
         THEN Ret("BorshIoError", accts, accts)
         ELSE Ret("Ok",
                  [accts EXCEPT ![counter_account.key].data =
                      CounterAccount_serialize(0, data)],
                  accts)

\* A bug process_close could have: the balances are added with wrapping_add.
process_close_wrapping(accts, metas) ==
    IF Len(metas) < 2 THEN Ret("NotEnoughAccountKeys", accts, accts)
    ELSE LET sum == (accts[metas[2].key].lamports + accts[metas[1].key].lamports)
                        % (U64Max + 1)
         IN
         IF ~metas[1].is_writable THEN Ret("InvalidAccountData", accts, accts)
         ELSE IF ~metas[2].is_signer THEN Ret("MissingRequiredSignature", accts, accts)
         ELSE LET credited == [accts EXCEPT ![metas[2].key].lamports = sum]
                  drained == [credited EXCEPT ![metas[1].key].lamports = 0]
              IN Ret("Ok",
                     [drained EXCEPT ![metas[1].key].data =
                         fill_zero(drained[metas[1].key].data)],
                     accts)

\* A bug process_close could have: the data is not cleared.
process_close_uncleared(accts, metas) ==
    IF Len(metas) < 2 THEN Ret("NotEnoughAccountKeys", accts, accts)
    ELSE LET sum == checked_add(accts[metas[2].key].lamports,
                                accts[metas[1].key].lamports)
         IN
         IF ~metas[1].is_writable THEN Ret("InvalidAccountData", accts, accts)
         ELSE IF ~metas[2].is_signer THEN Ret("MissingRequiredSignature", accts, accts)
         ELSE IF sum = None THEN Ret("ArithmeticOverflow", accts, accts)
         ELSE LET credited == [accts EXCEPT ![metas[2].key].lamports = sum]
              IN Ret("Ok", [credited EXCEPT ![metas[1].key].lamports = 0], accts)

\* A bug process_close could have: the counter is emptied before the sum is
\* checked.
process_close_drain_first(accts, metas) ==
    IF Len(metas) < 2 THEN Ret("NotEnoughAccountKeys", accts, accts)
    ELSE LET sum == checked_add(accts[metas[2].key].lamports,
                                accts[metas[1].key].lamports)
             drained == [accts EXCEPT ![metas[1].key].lamports = 0,
                                      ![metas[1].key].data =
                                          fill_zero(accts[metas[1].key].data)]
         IN
         IF ~metas[1].is_writable THEN Ret("InvalidAccountData", accts, accts)
         ELSE IF ~metas[2].is_signer THEN Ret("MissingRequiredSignature", accts, accts)
         ELSE IF sum = None THEN Ret("ArithmeticOverflow", drained, accts)
         ELSE Ret("Ok", [drained EXCEPT ![metas[2].key].lamports = sum], accts)

process_close(accts, metas) ==
    IF Len(metas) < 2 THEN Ret("NotEnoughAccountKeys", accts, accts)
    ELSE LET counter_account == metas[1]
             user == metas[2]
             dest_starting_lamports == accts[user.key].lamports
             sum == checked_add(dest_starting_lamports,
                                accts[counter_account.key].lamports)
         IN
         IF ~counter_account.is_writable THEN Ret("InvalidAccountData", accts, accts)
         ELSE IF ~user.is_signer THEN Ret("MissingRequiredSignature", accts, accts)
         ELSE IF sum = None THEN Ret("ArithmeticOverflow", accts, accts)
         ELSE LET credited == [accts EXCEPT ![user.key].lamports = sum]
                  drained == [credited EXCEPT ![counter_account.key].lamports = 0]
              IN Ret("Ok",
                     [drained EXCEPT ![counter_account.key].data =
                         fill_zero(drained[counter_account.key].data)],
                     accts)

process_instruction(program_id, accts, metas, instruction_data) ==
    LET instruction == CounterInstruction_try_from_slice(instruction_data) IN
    CASE instruction = "Initialize" -> process_initialize(program_id, accts, metas)
      [] instruction = "Increment" -> process_increment(accts, metas)
      [] instruction = "Reset" -> process_reset(accts, metas)
      [] instruction = "Close" -> process_close(accts, metas)
      [] OTHER -> Ret("InvalidInstructionData", accts, accts)

\* --------------------------------------------------------------- the ledger
RECURSIVE total_lamports(_, _)
total_lamports(accts, keys) ==
    IF keys = {} THEN 0
    ELSE LET k == CHOOSE x \in keys : TRUE
         IN accts[k].lamports + total_lamports(accts, keys \ {k})

is_writable(key, metas) ==
    \E i \in 1..Len(metas) : metas[i].key = key /\ metas[i].is_writable

\* The host's check of what the program itself wrote (after its
\* cross-program call, if any): only a writable account changes, only an
\* account the program owns loses balance or has its data changed, no owner
\* changes, and the balances still add up.
runtime_verify(program_id, before, after, metas) ==
    /\ \A k \in Keys : after[k] # before[k] => is_writable(k, metas)
    /\ \A k \in Keys :
          (after[k].data # before[k].data \/ after[k].lamports < before[k].lamports)
              => before[k].owner = program_id
    /\ \A k \in Keys : after[k].owner = before[k].owner
    /\ total_lamports(after, Keys) = total_lamports(before, Keys)

\* An account the ledger does not hold: no balance, no data, the system
\* program's.
Absent == [lamports |-> 0, data |-> <<>>, owner |-> SystemProgramId]

\* AccountMeta of one position of the account list. Only a user's key can
\* sign a transaction; the system program is never writable.
Meta(key, is_signer, is_writable_) ==
    [key |-> key, is_signer |-> is_signer, is_writable |-> is_writable_]

Metas ==
    {Meta(k, s, w) : k \in Users, s \in BOOLEAN, w \in BOOLEAN}
    \cup {Meta(k, FALSE, w) : k \in Pdas, w \in BOOLEAN}
    \cup {Meta(SystemProgramId, FALSE, FALSE)}

\* One key has one pair of flags in a transaction.
Consistent(metas) ==
    \A i, j \in 1..Len(metas) : metas[i].key = metas[j].key => metas[i] = metas[j]

\* The account lists of at most n positions.
AccountLists(n) ==
    {m \in UNION {[1..len -> Metas] : len \in 0..n} : Consistent(m)}

\* The accounts tried in the third position of Initialize: the system
\* program, and one that is not.
ThirdMetas == {Meta(SystemProgramId, FALSE, FALSE), Meta("u2", FALSE, FALSE)}

\* The account lists tried with Initialize: every list of at most two
\* positions, and every list of two followed by a third account.
InitializeLists ==
    AccountLists(2)
    \cup {m \in {Append(two, third) : two \in [1..2 -> Metas], third \in ThirdMetas} :
            Consistent(m)}

\* Payloads that are no variant: empty, an unknown index, trailing bytes.
BadPayloads == {<<>>, <<VariantCount>>, <<ByteRadix - 1>>, <<1, 0>>}

\* No function of utils.rs has been called.
NoCall == [op |-> "none"]

\* No run of Increments is followed.
NoTally == [k \in Pdas |-> [start |-> 0, count |-> 0, callers |-> {}]]

Genesis ==
    [k \in Keys |->
        CASE k = "u1" -> [Absent EXCEPT !.lamports = 2 * RentMinimum]
          [] k = "u2" -> [Absent EXCEPT !.lamports = U64Max - RentMinimum]
          [] k = SystemProgramId -> [Absent EXCEPT !.lamports = RentMinimum]
          [] OTHER -> Absent]

KeyAt(metas, i) == IF Len(metas) >= i THEN metas[i].key ELSE "none"

Init ==
    /\ accounts = Genesis
    /\ last = [instruction |-> "None", res |-> "None", committed |-> FALSE,
               counter |-> "none", user |-> "none", pre |-> Genesis,
               was_closed |-> FALSE, data |-> <<>>]
    /\ closed = {}
    /\ utils = NoCall
    /\ tally = NoTally

\* The entrypoint: the program runs on the ledger's accounts; its writes are
\* kept when it returns Ok and the host's check passes, dropped otherwise.
Run(instruction_data, metas) ==
    LET r == process_instruction(ProgramId, accounts, metas, instruction_data)
        committed == r.res = "Ok" /\ runtime_verify(ProgramId, r.cpi, r.accts, metas)
        instruction == CounterInstruction_try_from_slice(instruction_data)
    IN
    /\ accounts' = IF committed THEN r.accts ELSE accounts
    /\ last' = [instruction |-> instruction, res |-> r.res, committed |-> committed,
                counter |-> IF committed THEN KeyAt(metas, 1) ELSE "none",
                user |-> IF committed THEN KeyAt(metas, 2) ELSE "none",
                pre |-> accounts,
                was_closed |-> committed /\ KeyAt(metas, 1) \in closed,
                data |-> instruction_data]
    /\ closed' =
          IF ~committed THEN closed
          ELSE IF instruction = "Close" THEN closed \cup {metas[1].key}
          ELSE IF instruction = "Initialize" THEN closed \ {metas[1].key}
          ELSE closed

\* An instruction of the ledger alone.
Invoke(instruction_data, metas) ==
    Run(instruction_data, metas) /\ UNCHANGED <<utils, tally>>

Initialize == \E metas \in InitializeLists : Invoke(<<0>>, metas)

Increment == \E metas \in AccountLists(1) : Invoke(<<1>>, metas)

Reset == \E metas \in AccountLists(2) : Invoke(<<2>>, metas)

Close == \E metas \in AccountLists(2) : Invoke(<<3>>, metas)

Undecodable ==
    \E instruction_data \in BadPayloads, metas \in AccountLists(1) :
        Invoke(instruction_data, metas)

\* The end of a transaction: the ledger drops every account left without
\* balance.
EndTransaction ==
    /\ \E k \in Keys : accounts[k].lamports = 0 /\ accounts[k] # Absent
    /\ accounts' = [k \in Keys |->
          IF accounts[k].lamports = 0 THEN Absent ELSE accounts[k]]
    /\ UNCHANGED <<last, closed, utils, tally>>

Next ==
    \/ Initialize
    \/ Increment
    \/ Reset
    \/ Close
    \/ Undecodable
    \/ EndTransaction

Spec == Init /\ [][Next]_vars

\* ---------------------------------------------------------------- utils.rs
\* The longest buffer tried.
MaxDataLen == 6

GONGDE_VALUE_SIZE == 4

GONGDE_ACCOUNT_SEED == "GongDeIncrease"

\* The values of one half of a u32: a u32 is kept as its two 16-bit halves,
\* value = hi * 2^16 + lo.
U32Halves == {0, 1, 255, 256, 65535}

U32Values == {[lo |-> l, hi |-> h] : l \in U32Halves, h \in U32Halves}

\* u32::from_le_bytes of four bytes.
u32_from_le_bytes(bytes) ==
    [lo |-> from_le_bytes(SubSeq(bytes, 1, 2)),
     hi |-> from_le_bytes(SubSeq(bytes, 3, 4))]

\* u32::to_le_bytes
u32_to_le_bytes(value) == to_le_bytes(value.lo, 2) \o to_le_bytes(value.hi, 2)

read_gongde_value(data) ==
    IF Len(data) < GONGDE_VALUE_SIZE
    THEN [res |-> "AccountDataTooSmall", value |-> None]
    ELSE [res |-> "Ok", value |-> u32_from_le_bytes(<<data[1], data[2], data[3], data[4]>>)]

\* A bug write_gongde_value could have: the bytes are written most
\* significant first (to_be_bytes).
write_gongde_value_be(data, value) ==
    IF Len(data) < GONGDE_VALUE_SIZE
    THEN [res |-> "AccountDataTooSmall", data |-> data]
    ELSE LET bytes == u32_to_le_bytes(value)
         IN [res |-> "Ok",
             data |-> [i \in 1..Len(data) |->
                          IF i <= GONGDE_VALUE_SIZE
                          THEN bytes[GONGDE_VALUE_SIZE + 1 - i] ELSE data[i]]]

\* write_gongde_value: what it returns and the buffer it leaves.
write_gongde_value(data, value) ==
    IF Len(data) < GONGDE_VALUE_SIZE
    THEN [res |-> "AccountDataTooSmall", data |-> data]
    ELSE LET bytes == u32_to_le_bytes(value)
         IN [res |-> "Ok",
             data |-> [i \in 1..Len(data) |->
                          IF i <= GONGDE_VALUE_SIZE THEN bytes[i] ELSE data[i]]]

\* A bug validate_account_data_size could have: <= for <.
validate_account_data_size_inclusive(data_len) ==
    IF data_len <= GONGDE_VALUE_SIZE THEN "AccountDataTooSmall" ELSE "Ok"

validate_account_data_size(data_len) ==
    IF data_len < GONGDE_VALUE_SIZE THEN "AccountDataTooSmall" ELSE "Ok"

\* The bytes a buffer holds before the first call.
DataBytes == {0, ByteRadix - 1}

\* The buffers tried: every length up to MaxDataLen.
Buffers == UNION {[1..len -> DataBytes] : len \in 0..MaxDataLen}

\* The codec is called on a buffer: data is the buffer, pre the buffer before
\* the last write, value the u32 written or read.
CodecInit ==
    /\ accounts = Genesis
    /\ last = [instruction |-> "None", res |-> "None", committed |-> FALSE,
               counter |-> "none", user |-> "none", pre |-> Genesis,
               was_closed |-> FALSE, data |-> <<>>]
    /\ closed = {}
    /\ tally = NoTally
    /\ utils \in {[op |-> "none", data |-> data, res |-> "None", value |-> None,
                   pre |-> data] : data \in Buffers}

ReadValue ==
    /\ LET r == read_gongde_value(utils.data)
       IN utils' = [utils EXCEPT !.op = "read_gongde_value", !.res = r.res,
                                 !.value = r.value]
    /\ UNCHANGED <<accounts, last, closed, tally>>

WriteValue ==
    /\ \E value \in U32Values :
          LET w == write_gongde_value(utils.data, value)
          IN utils' = [op |-> "write_gongde_value", data |-> w.data, res |-> w.res,
                       value |-> value, pre |-> utils.data]
    /\ UNCHANGED <<accounts, last, closed, tally>>

ValidateSize ==
    /\ utils' = [utils EXCEPT !.op = "validate_account_data_size",
                              !.res = validate_account_data_size(Len(utils.data)),
                              !.value = None]
    /\ UNCHANGED <<accounts, last, closed, tally>>

CodecNext ==
    \/ ReadValue
    \/ WriteValue
    \/ ValidateSize

CodecSpec == CodecInit /\ [][CodecNext]_vars

\* ------------------------------------------- utils.rs: router and addresses
\* A bug from_instruction_data could have: an empty payload reads as 0.
from_instruction_data_default_zero(instruction_data) ==
    LET first == IF Len(instruction_data) = 0 THEN 0 ELSE instruction_data[1]
    IN CASE first = 0 -> "Increment"
         [] first = 1 -> "Close"
         [] OTHER -> "InvalidInstructionData"

\* A bug from_instruction_data could have: the last byte is matched (last()
\* for first()).
from_instruction_data_last(instruction_data) ==
    LET first == IF Len(instruction_data) = 0 THEN ByteRadix - 1
                 ELSE instruction_data[Len(instruction_data)]
    IN CASE first = 0 -> "Increment"
         [] first = 1 -> "Close"
         [] OTHER -> "InvalidInstructionData"

\* GongDeInstruction::from_instruction_data: first().copied().unwrap_or(255)
\* is matched against the two discriminants.
from_instruction_data(instruction_data) ==
    LET first == IF Len(instruction_data) = 0 THEN ByteRadix - 1
                 ELSE instruction_data[1]
    IN CASE first = 0 -> "Increment"
         [] first = 1 -> "Close"
         [] OTHER -> "InvalidInstructionData"

\* An address derived by the host: the derivation is taken as an injective
\* function of its mode, its seed, the user and the program.
derived_address(mode, seed, user, program_id) ==
    [mode |-> mode, seed |-> seed, user |-> user, program_id |-> program_id]

\* lib.rs: Pubkey::find_program_address(&[b"counter", user.key.as_ref()],
\* program_id), the address process_initialize requires of the counter.
expected_counter_address(user, program_id) ==
    derived_address("find_program_address", "counter", user, program_id)

\* close.rs: Pubkey::find_program_address(&[b"counter", user.pubkey().as_ref()],
\* &config.program_id), the address the close client closes.
close_counter_pubkey(user, program_id) ==
    derived_address("find_program_address", "counter", user, program_id)

\* utils.rs: Pubkey::create_with_seed(user_pubkey, GONGDE_ACCOUNT_SEED,
\* program_id), the address the query client reads.
derive_gongde_account_address(user_pubkey, program_id) ==
    derived_address("create_with_seed", GONGDE_ACCOUNT_SEED, user_pubkey, program_id)

\* The program identities tried.
ProgramIds == {ProgramId, "program2"}

\* The bytes tried after the first byte of a payload.
LaterBytes == {0, 1, ByteRadix - 1}

\* The payloads tried: the empty one, every single byte, every byte followed
\* by another.
Payloads ==
    {<<>>}
    \cup {<<first>> : first \in 0..(ByteRadix - 1)}
    \cup {<<first, later>> : first \in 0..(ByteRadix - 1), later \in LaterBytes}

\* A client holds a payload; it parses it and derives counter addresses.
ClientInit ==
    /\ accounts = Genesis
    /\ last = [instruction |-> "None", res |-> "None", committed |-> FALSE,
               counter |-> "none", user |-> "none", pre |-> Genesis,
               was_closed |-> FALSE, data |-> <<>>]
    /\ closed = {}
    /\ tally = NoTally
    /\ utils \in {[op |-> "none", instruction_data |-> instruction_data,
                   res |-> "None", user |-> "none", program_id |-> "none",
                   address |-> "none"] : instruction_data \in Payloads}

ParseInstruction ==
    /\ utils' = [utils EXCEPT !.op = "from_instruction_data",
                              !.res = from_instruction_data(utils.instruction_data)]
    /\ UNCHANGED <<accounts, last, closed, tally>>

\* query.rs, through examples/utils.rs: get_gongde_account_address.
QueryDerive ==
    /\ \E user \in Users, program_id \in ProgramIds :
          utils' = [utils EXCEPT !.op = "derive_gongde_account_address",
                                 !.user = user, !.program_id = program_id,
                                 !.address = derive_gongde_account_address(user, program_id)]
    /\ UNCHANGED <<accounts, last, closed, tally>>

\* close.rs: the counter address of the close client.
CloseDerive ==
    /\ \E user \in Users, program_id \in ProgramIds :
          utils' = [utils EXCEPT !.op = "close_counter_pubkey",
                                 !.user = user, !.program_id = program_id,
                                 !.address = close_counter_pubkey(user, program_id)]
    /\ UNCHANGED <<accounts, last, closed, tally>>

ClientNext ==
    \/ ParseInstruction
    \/ QueryDerive
    \/ CloseDerive

ClientSpec == ClientInit /\ [][ClientNext]_vars

\* ------------------------------------------------------ serialized callers
\* The ledger once u1 has created its counter and the counter was raised to
\* start.
Initialized(start) ==
    [Genesis EXCEPT
        !["pda1"] = [lamports |-> RentMinimum,
                     data |-> to_le_bytes(start, AccountSpace),
                     owner |-> ProgramId],
        !["u1"] = [Genesis["u1"] EXCEPT !.lamports = @ - RentMinimum]]

\* Callers follow an initialized counter from any value it can hold.
SerialInit ==
    /\ accounts \in {Initialized(start) : start \in 0..U64Max}
    /\ last = [instruction |-> "None", res |-> "None", committed |-> FALSE,
               counter |-> "none", user |-> "none", pre |-> accounts,
               was_closed |-> FALSE, data |-> <<>>]
    /\ closed = {}
    /\ utils = NoCall
    /\ tally = [c \in Pdas |->
                  [start |-> from_le_bytes(accounts[c].data), count |-> 0,
                   callers |-> {}]]

\* The tally after the instruction just run: a committed Increment of a
\* counter adds one to its count and its issuers to its callers; a committed
\* Reset or Close of it, or an Initialize that created it, begins a new run
\* from the value it then holds.
Count(issuers) ==
    tally' = [c \in Pdas |->
        IF ~last'.committed \/ last'.counter # c THEN tally[c]
        ELSE IF last'.instruction = "Increment"
        THEN [tally[c] EXCEPT !.count = @ + 1, !.callers = @ \cup issuers]
        ELSE IF \/ last'.instruction \in {"Reset", "Close"}
                \/ CounterAccount_try_from_slice(accounts[c].data) = None
        THEN [start |-> from_le_bytes(accounts'[c].data), count |-> 0,
              callers |-> {}]
        ELSE tally[c]]

\* The ledger runs one caller's Increment at a time, in any order.
SerialIncrement ==
    \E caller \in Users, metas \in AccountLists(1) :
        Run(<<1>>, metas) /\ Count({caller}) /\ UNCHANGED utils

SerialInitialize ==
    \E metas \in InitializeLists :
        Run(<<0>>, metas) /\ Count({}) /\ UNCHANGED utils

SerialReset ==
    \E metas \in AccountLists(2) :
        Run(<<2>>, metas) /\ Count({}) /\ UNCHANGED utils

SerialClose ==
    \E metas \in AccountLists(2) :
        Run(<<3>>, metas) /\ Count({}) /\ UNCHANGED utils

SerialNext ==
    \/ SerialIncrement
    \/ SerialInitialize
    \/ SerialReset
    \/ SerialClose
    \/ EndTransaction

SerialSpec == SerialInit /\ [][SerialNext]_vars

\* ------------------------------------------------------------ the claims
\* The value a counter account's data holds.
Value(account) == from_le_bytes(account.data)

\* An account whose data is a CounterAccount of the program.
IsCounter(account) == account.owner = ProgramId /\ Len(account.data) = U64Bytes

\* A counter the ledger holds: it has a balance.
Present(account) == IsCounter(account) /\ account.lamports > 0

Zeroes == [i \in 1..AccountSpace |-> 0]

OthersUnchanged(before, after, keys) ==
    \A k \in Keys \ keys : after[k] = before[k]

\* C1: Increment on a writable counter account holding n < u64::MAX returns
\* Ok and stores n + 1, whether or not anything signed, and changes neither
\* the counter's balance nor any other account; the ledger keeps the write.
C1_IncrementAddsOne ==
    \A metas \in AccountLists(1) :
        LET k == metas[1].key
            r == process_increment(accounts, metas)
        IN (/\ Len(metas) = 1
            /\ metas[1].is_writable
            /\ IsCounter(accounts[k])
            /\ Value(accounts[k]) < U64Max)
           => /\ r.res = "Ok"
              /\ Len(r.accts[k].data) = U64Bytes
              /\ Value(r.accts[k]) = Value(accounts[k]) + 1
              /\ r.accts[k].lamports = accounts[k].lamports
              /\ r.accts[k].owner = accounts[k].owner
              /\ OthersUnchanged(accounts, r.accts, {k})
              /\ runtime_verify(ProgramId, r.cpi, r.accts, metas)

\* An Increment was committed on a counter holding 1 and left it holding 2.
C1_Witness ==
    /\ last.instruction = "Increment"
    /\ last.committed
    /\ Present(last.pre[last.counter])
    /\ Value(last.pre[last.counter]) = 1
    /\ Value(accounts[last.counter]) = 2

\* C2: Increment on a writable counter holding u64::MAX returns Ok and
\* leaves the value at u64::MAX.
C2_IncrementSaturates ==
    \A metas \in AccountLists(1) :
        LET k == metas[1].key
            r == process_increment(accounts, metas)
        IN (/\ Len(metas) = 1
            /\ metas[1].is_writable
            /\ IsCounter(accounts[k])
            /\ Value(accounts[k]) = U64Max)
           => /\ r.res = "Ok"
              /\ Value(r.accts[k]) = U64Max

\* C3: a Reset or a Close committed on a user's counter was signed, in the
\* second position, by the user the counter's address derives from.
C3_OnlyOwnerResetsOrCloses ==
    (/\ last.instruction \in {"Reset", "Close"}
     /\ last.committed
     /\ Present(last.pre[last.counter]))
    => find_program_address(last.user, ProgramId) = last.counter

\* C4: Close of a present counter, marked writable, with a signer in the
\* second position that is another account and whose balance plus the
\* counter's fits a u64, leaves the counter with balance 0 and data all 0
\* and the signer with its balance plus the counter's.
C4_CloseReturnsDeposit ==
    \A metas \in AccountLists(2) :
        LET k == metas[1].key
            u == metas[2].key
            r == process_close(accounts, metas)
        IN (/\ Len(metas) = 2
            /\ Present(accounts[k])
            /\ metas[1].is_writable
            /\ metas[2].is_signer
            /\ u # k
            /\ accounts[u].lamports + accounts[k].lamports <= U64Max)
           => /\ r.res = "Ok"
              /\ r.accts[k].lamports = 0
              /\ r.accts[k].data = Zeroes
              /\ r.accts[u].lamports = accounts[u].lamports + accounts[k].lamports

\* A Close was committed on a counter holding 2: the counter is left with
\* no balance and zeroed data, the signer with the deposit added.
C4_Witness ==
    /\ last.instruction = "Close"
    /\ last.committed
    /\ Present(last.pre[last.counter])
    /\ Value(last.pre[last.counter]) = 2
    /\ accounts[last.counter].lamports = 0
    /\ accounts[last.counter].data = Zeroes
    /\ accounts[last.user].lamports = last.pre[last.user].lamports + RentMinimum

\* Every call the ledger makes: a payload and an account list.
Calls ==
    {<<(<<0>>), m>> : m \in InitializeLists}
    \cup {<<(<<1>>), m>> : m \in AccountLists(1)}
    \cup {<<(<<2>>), m>> : m \in AccountLists(2)}
    \cup {<<(<<3>>), m>> : m \in AccountLists(2)}
    \cup (BadPayloads \X AccountLists(1))

\* C5: whenever an instruction does not return Ok, the accounts it leaves
\* are the accounts it was given: data and balance of every account.
C5_NoWriteBeforeFailure ==
    \A call \in Calls :
        LET r == process_instruction(ProgramId, accounts, call[2], call[1])
        IN r.res # "Ok" => r.accts = accounts

\* A Close returned ArithmeticOverflow on a present counter after both of
\* its flag checks passed, and the ledger is as before.
C5_Witness ==
    /\ last.instruction = "Close"
    /\ last.res = "ArithmeticOverflow"
    /\ \E k \in Pdas : Present(last.pre[k])
    /\ accounts = last.pre

\* C6 as claimed: Reset with a non-signer in the authorizing position fails
\* with MissingRequiredSignature for every counter value and either setting
\* of the counter's writable flag, and the value is unchanged.
C6_ResetUnsignedAnyFlag ==
    \A metas \in AccountLists(2) :
        LET k == metas[1].key
            r == process_reset(accounts, metas)
        IN (/\ Len(metas) = 2
            /\ IsCounter(accounts[k])
            /\ ~metas[2].is_signer)
           => /\ r.res = "MissingRequiredSignature"
              /\ r.accts[k] = accounts[k]

\* C6 amended: Reset with a non-signer in the authorizing position fails
\* with MissingRequiredSignature when the counter is marked writable and
\* with InvalidAccountData when it is not, for every counter value, and the
\* value is unchanged.
C6_ResetUnsigned ==
    \A metas \in AccountLists(2) :
        LET k == metas[1].key
            r == process_reset(accounts, metas)
        IN (/\ Len(metas) = 2
            /\ IsCounter(accounts[k])
            /\ ~metas[2].is_signer)
           => /\ r.res = IF metas[1].is_writable THEN "MissingRequiredSignature"
                         ELSE "InvalidAccountData"
              /\ r.accts[k] = accounts[k]

\* A Reset of a present counter holding 2 failed for its missing signature.
C6_Witness ==
    /\ last.instruction = "Reset"
    /\ last.res = "MissingRequiredSignature"
    /\ \E k \in Pdas : Present(accounts[k]) /\ Value(accounts[k]) = 2
    /\ accounts = last.pre

\* C7: Reset of a present counter, marked writable, with a signer in the
\* second position returns Ok, sets the value to 0 and changes no balance
\* and no other account; the ledger keeps the write.
C7_ResetZeroes ==
    \A metas \in AccountLists(2) :
        LET k == metas[1].key
            r == process_reset(accounts, metas)
        IN (/\ Len(metas) = 2
            /\ Present(accounts[k])
            /\ metas[1].is_writable
            /\ metas[2].is_signer)
           => /\ r.res = "Ok"
              /\ Len(r.accts[k].data) = U64Bytes
              /\ Value(r.accts[k]) = 0
              /\ r.accts[k].lamports = accounts[k].lamports
              /\ r.accts[k].owner = accounts[k].owner
              /\ OthersUnchanged(accounts, r.accts, {k})
              /\ runtime_verify(ProgramId, r.cpi, r.accts, metas)

\* A Reset was committed on a counter holding u64::MAX and left it at 0.
C7_Witness ==
    /\ last.instruction = "Reset"
    /\ last.committed
    /\ Present(last.pre[last.counter])
    /\ Value(last.pre[last.counter]) = U64Max
    /\ Value(accounts[last.counter]) = 0
    /\ accounts[last.counter].lamports = RentMinimum

\* The account lists of Initialize that pass its signer and address checks.
Addressed(metas) ==
    /\ Len(metas) = 3
    /\ metas[2].is_signer
    /\ metas[1].key = find_program_address(metas[2].key, ProgramId)

\* C8 as claimed: after an Initialize that returns Ok the counter at the
\* derived address holds 0, whatever it held before.
C8_InitializeAlwaysZero ==
    \A metas \in InitializeLists :
        LET r == process_initialize(ProgramId, accounts, metas)
        IN (Len(metas) = 3 /\ r.res = "Ok")
           => /\ Len(r.accts[metas[1].key].data) = U64Bytes
              /\ Value(r.accts[metas[1].key]) = 0

\* C8 amended: after an Initialize that returns Ok on a counter address
\* whose balance was 0 the counter holds 0; on an address whose balance was
\* not 0 Initialize returns Ok and leaves every account as it was, so a
\* present counter keeps its value n.
C8_InitializeZeroOrKept ==
    \A metas \in InitializeLists :
        LET r == process_initialize(ProgramId, accounts, metas)
            k == metas[1].key
        IN /\ (Len(metas) = 3 /\ r.res = "Ok" /\ accounts[k].lamports = 0)
              => /\ Len(r.accts[k].data) = U64Bytes
                 /\ Value(r.accts[k]) = 0
           /\ (Addressed(metas) /\ accounts[k].lamports > 0)
              => /\ r.res = "Ok"
                 /\ r.accts = accounts

\* An Initialize was committed on a present counter holding 2, which still
\* holds 2.
C8_Witness ==
    /\ last.instruction = "Initialize"
    /\ last.committed
    /\ Present(last.pre[last.counter])
    /\ Value(last.pre[last.counter]) = 2
    /\ Value(accounts[last.counter]) = 2

\* What C9 says Initialize leaves: storage of the CounterAccount width owned
\* by the program, the rent-exempt minimum moved from payer to counter, the
\* value 0.
Created(before, r, metas) ==
    LET k == metas[1].key
        u == metas[2].key
    IN /\ r.res = "Ok"
       /\ Len(r.accts[k].data) = AccountSpace
       /\ r.accts[k].owner = ProgramId
       /\ r.accts[k].lamports = RentMinimum
       /\ r.accts[u].lamports = before[u].lamports - RentMinimum
       /\ Value(r.accts[k]) = 0
       /\ OthersUnchanged(before, r.accts, {k, u})

C10_ClosedStaysUntouched ==
    (last.instruction \in {"Increment", "Reset"} /\ last.committed)
    => ~last.was_closed

\* C11: in no step does the value a counter account holds decrease, unless
\* the step is a committed Reset or a committed Close of that account: no
\* Increment, committed or failed, and no Initialize lowers it.
C11_ValueNeverDecreases ==
    [][\A k \in Keys :
          (/\ IsCounter(accounts[k])
           /\ IsCounter(accounts'[k])
           /\ Value(accounts'[k]) < Value(accounts[k]))
          => /\ last'.instruction \in {"Reset", "Close"}
             /\ last'.committed
             /\ last'.counter = k]_vars

\* An Increment of a present counter holding u64::MAX ended without Ok and
\* the counter still holds u64::MAX.
C11_Witness ==
    /\ last.instruction = "Increment"
    /\ last.res # "Ok"
    /\ \E k \in Pdas :
          /\ Present(last.pre[k])
          /\ Value(last.pre[k]) = U64Max
          /\ Value(accounts[k]) = U64Max

\* C12: Close returns ArithmeticOverflow exactly when it is given a counter
\* marked writable and a signer whose balance plus the counter's balance
\* exceeds u64::MAX; the balances are then as they were.
C12_OverflowExactly ==
    \A metas \in AccountLists(2) :
        LET r == process_close(accounts, metas)
        IN /\ r.res = "ArithmeticOverflow"
                <=> /\ Len(metas) = 2
                    /\ metas[1].is_writable
                    /\ metas[2].is_signer
                    /\ accounts[metas[2].key].lamports
                         + accounts[metas[1].key].lamports > U64Max
           /\ r.res = "ArithmeticOverflow" => r.accts = accounts

\* A Close of a present counter by a signer holding u64::MAX returned
\* ArithmeticOverflow.
C12_Witness ==
    /\ last.instruction = "Close"
    /\ last.res = "ArithmeticOverflow"
    /\ \E k \in Pdas, u \in Users :
          /\ Present(accounts[k])
          /\ accounts[k].lamports = RentMinimum
          /\ accounts[u].lamports = U64Max

\* The handler a payload of the one byte tag reaches.
HandlerOf(tag, accts, metas) ==
    CASE tag = 0 -> process_initialize(ProgramId, accts, metas)
      [] tag = 1 -> process_increment(accts, metas)
      [] tag = 2 -> process_reset(accts, metas)
      [] tag = 3 -> process_close(accts, metas)

\* C13: process_instruction does what the handler of the tag does for a
\* payload that is exactly one of the tags 0 (Initialize), 1 (Increment),
\* 2 (Reset), 3 (Close); for every other payload (empty, unknown tag, a tag
\* followed by more bytes) it returns InvalidInstructionData and leaves the
\* accounts alone.
C13_ClosedTagSet ==
    \A call \in Calls :
        LET r == process_instruction(ProgramId, accounts, call[2], call[1])
        IN IF Len(call[1]) = 1 /\ call[1][1] \in 0..3
           THEN r = HandlerOf(call[1][1], accounts, call[2])
           ELSE r.res = "InvalidInstructionData" /\ r.accts = accounts

\* The tag of Increment followed by one more byte was sent for a present
\* counter marked writable or not, and came back as InvalidInstructionData.
C13_Witness ==
    /\ last.data = <<1, 0>>
    /\ last.res = "InvalidInstructionData"
    /\ \E k \in Pdas : Present(last.pre[k])
    /\ accounts = last.pre

\* The accounts a handler takes off the front of the list.
Consumed(tag) == CASE tag = 0 -> 3 [] tag = 1 -> 1 [] tag = 2 -> 2 [] tag = 3 -> 2

\* C14: a handler given fewer accounts than it consumes (Initialize 3,
\* Increment 1, Reset 2, Close 2) returns NotEnoughAccountKeys, whatever the
\* flags and keys of the accounts it was given, and leaves them alone.
C14_NotEnoughAccountKeys ==
    \A call \in Calls :
        (/\ Len(call[1]) = 1
         /\ call[1][1] \in 0..3
         /\ Len(call[2]) < Consumed(call[1][1]))
        => LET r == HandlerOf(call[1][1], accounts, call[2])
           IN r.res = "NotEnoughAccountKeys" /\ r.accts = accounts

\* A Reset was sent with too few accounts while a counter was present.
C14_Witness ==
    /\ last.instruction = "Reset"
    /\ last.res = "NotEnoughAccountKeys"
    /\ \E k \in Pdas : Present(last.pre[k])
    /\ accounts = last.pre

\* C15 as stated: from_instruction_data reads an empty payload as tag 0,
\* Increment.
C15_EmptyIsIncrement ==
    (utils.op = "from_instruction_data" /\ utils.instruction_data = <<>>)
    => utils.res = "Increment"

\* C15: from_instruction_data reads an empty payload as the byte 255, which
\* is no tag: it returns InvalidInstructionData and names no instruction.
C15_EmptyIsInvalid ==
    utils.instruction_data = <<>>
    => from_instruction_data(utils.instruction_data) = "InvalidInstructionData"

\* The empty payload was parsed and came back as InvalidInstructionData.
C15_Witness ==
    /\ utils.op = "from_instruction_data"
    /\ utils.instruction_data = <<>>
    /\ utils.res = "InvalidInstructionData"

\* C16: on a payload that is not empty from_instruction_data returns
\* Increment when the first byte is 0, Close when it is 1 and
\* InvalidInstructionData for each other byte; it returns the same with the
\* later bytes removed and with one more byte appended.
C16_FirstByteDecides ==
    LET instruction_data == utils.instruction_data
    IN Len(instruction_data) >= 1
       => /\ instruction_data[1] = 0
                => from_instruction_data(instruction_data) = "Increment"
          /\ instruction_data[1] = 1
                => from_instruction_data(instruction_data) = "Close"
          /\ instruction_data[1] \in 2..255
                => from_instruction_data(instruction_data) = "InvalidInstructionData"
          /\ from_instruction_data(instruction_data)
                = from_instruction_data(<<instruction_data[1]>>)
          /\ \A later \in LaterBytes :
                from_instruction_data(Append(instruction_data, later))
                   = from_instruction_data(instruction_data)

\* The byte 1 followed by the byte 0 was parsed as Close.
C16_Witness ==
    /\ utils.op = "from_instruction_data"
    /\ utils.instruction_data = <<1, 0>>
    /\ utils.res = "Close"

\* close.rs: the tag byte the close client puts in its payload.
INSTRUCTION_CLOSE == 1

\* close.rs: the instruction the close client builds for a user: the one
\* byte INSTRUCTION_CLOSE, the user's program-derived counter address marked
\* writable, and the user as a writable signer.
close_instruction(user) ==
    [data |-> <<INSTRUCTION_CLOSE>>,
     accounts |-> <<Meta(find_program_address(user, ProgramId), FALSE, TRUE),
                    Meta(user, TRUE, TRUE)>>]

\* C17: the instruction the close client sends for a user whose counter holds
\* a balance is dispatched by process_instruction to process_close: it does
\* what process_close does, the user receives the counter's balance, and the
\* counter is left with no balance and zeroed data.
C17_CloseClientCloses ==
    \A user \in Users :
        LET ix == close_instruction(user)
            counter == ix.accounts[1].key
            r == process_instruction(ProgramId, accounts, ix.accounts, ix.data)
        IN (counter \in Keys /\ accounts[counter].lamports > 0)
           => /\ r = process_close(accounts, ix.accounts)
              /\ r.res = "Ok"
                   => /\ r.accts[counter].lamports = 0
                      /\ r.accts[counter].data = Zeroes
                      /\ r.accts[user].lamports
                           = accounts[user].lamports + accounts[counter].lamports

\* C18: for every user and program, the address the close client closes is
\* the address process_initialize requires, and every address the query
\* client has derived is the address process_initialize requires for that
\* user and program.
C18_ClientsDeriveRequiredAddress ==
    /\ \A user \in Users, program_id \in ProgramIds :
          close_counter_pubkey(user, program_id)
             = expected_counter_address(user, program_id)
    /\ utils.op = "derive_gongde_account_address"
          => utils.address = expected_counter_address(utils.user, utils.program_id)

\* C19: on every buffer of at least 4 bytes and for every u32 v,
\* write_gongde_value succeeds and read_gongde_value then returns v from the
\* written buffer; bytes 0..3 hold v least significant byte first, and the
\* length and the bytes from offset 4 on are as before the write.
C19_WriteReadRoundTrip ==
    \A v \in U32Values :
        Len(utils.data) >= 4
        => LET w == write_gongde_value(utils.data, v)
           IN /\ w.res = "Ok"
              /\ read_gongde_value(w.data) = [res |-> "Ok", value |-> v]
              /\ w.data[1] = v.lo % ByteRadix
              /\ w.data[2] = v.lo \div ByteRadix
              /\ w.data[3] = v.hi % ByteRadix
              /\ w.data[4] = v.hi \div ByteRadix
              /\ Len(w.data) = Len(utils.data)
              /\ \A i \in 5..Len(utils.data) : w.data[i] = utils.data[i]

\* The value 0x010000FF was read back from a buffer longer than 4 bytes that
\* held other bytes before it was written.
C19_Witness ==
    /\ utils.op = "read_gongde_value"
    /\ utils.res = "Ok"
    /\ utils.value = [lo |-> 255, hi |-> 256]
    /\ Len(utils.data) > 4
    /\ utils.pre[1] = 0
    /\ utils.data[5] = 255

\* C20: read_gongde_value, write_gongde_value (of any value) and
\* validate_account_data_size return AccountDataTooSmall when the length is
\* under 4 and Ok when it is 4 or more; a write that fails leaves the buffer
\* as it was.
C20_TooSmallExactly ==
    LET expected(len) == IF len < 4 THEN "AccountDataTooSmall" ELSE "Ok"
    IN /\ read_gongde_value(utils.data).res = expected(Len(utils.data))
       /\ \A v \in U32Values :
             LET w == write_gongde_value(utils.data, v)
             IN /\ w.res = expected(Len(utils.data))
                /\ w.res # "Ok" => w.data = utils.data
       /\ validate_account_data_size(Len(utils.data)) = expected(Len(utils.data))
       /\ \A data_len \in 0..MaxDataLen : validate_account_data_size(data_len) = expected(data_len)

\* A write to a buffer of 3 bytes failed and the buffer is as before.
C20_Witness ==
    /\ utils.op = "write_gongde_value"
    /\ utils.res = "AccountDataTooSmall"
    /\ Len(utils.data) = 3
    /\ utils.data = utils.pre
    /\ utils.value = [lo |-> 1, hi |-> 0]

\* C21: whatever instruction is run on whatever account list, the one naming
\* the same account as counter and as signer of a Close included, the
\* balances of all accounts add up to the same after it as before it:
\* Initialize only moves balance from payer to counter, Close only from
\* counter to signer.
C21_BalanceConserved ==
    \A call \in Calls :
        LET r == process_instruction(ProgramId, accounts, call[2], call[1])
        IN total_lamports(r.accts, Keys) = total_lamports(accounts, Keys)

\* C22: whichever callers issued them and in whatever order the ledger ran
\* them, after k Increments committed on a counter since it was last created,
\* reset or closed, the counter holds the value the run began with plus k.
C22_NoLostUpdate ==
    \A c \in Pdas :
        IsCounter(accounts[c])
        => Value(accounts[c]) = tally[c].start + tally[c].count

\* Two Increments, one by each caller, were committed on a counter that held
\* 1: it holds 3.
C22_Witness ==
    \E c \in Pdas :
        /\ Present(accounts[c])
        /\ tally[c] = [start |-> 1, count |-> 2, callers |-> Users]
        /\ Value(accounts[c]) = 3

\* C23: given its three accounts, Initialize returns MissingRequiredSignature
\* when the payer did not sign, whatever the counter address;
\* InvalidAccountData when the payer signed and the counter is not at the
\* address derived for the payer; Ok, with every account as it was, when the
\* counter at the derived address holds a balance; and whenever it does not
\* return Ok every account is as it was.
C23_InitializeCheckOrder ==
    \A metas \in InitializeLists :
        Len(metas) = 3
        => LET r == process_initialize(ProgramId, accounts, metas)
               expected == find_program_address(metas[2].key, ProgramId)
           IN /\ ~metas[2].is_signer => r.res = "MissingRequiredSignature"
              /\ (metas[2].is_signer /\ metas[1].key # expected)
                    => r.res = "InvalidAccountData"
              /\ (/\ metas[2].is_signer
                  /\ metas[1].key = expected
                  /\ accounts[metas[1].key].lamports > 0)
                    => r.res = "Ok" /\ r.accts = accounts
              /\ r.res # "Ok" => r.accts = accounts

\* An Initialize by u1 was committed on u1's present counter: u1 holds what
\* it held and the counter is byte for byte what it was.
C23_Witness ==
    /\ last.instruction = "Initialize"
    /\ last.res = "Ok"
    /\ last.committed
    /\ last.user = "u1"
    /\ last.counter = find_program_address("u1", ProgramId)
    /\ Present(last.pre[last.counter])
    /\ accounts = last.pre

====
